---- MODULE Spec2Model ----
(***************************************************************************)
(* beacon-monitor: the poll loop drivers, the validator status store, the  *)
(* beacon query client and the reconciler, as one state machine.           *)
(*                                                                         *)
(* Four drivers exist in the sources:                                      *)
(*   "bulk"        src/src/main.ts        main, lines 46-177               *)
(*   "monitor"     src/src/main.ts        main, lines 272-342              *)
(*   "perkey"      src/unnamed/part_003   main, lines 96-204, and its copy *)
(*                 with fixed file paths, main, lines 373-480: the two     *)
(*                 agree line for line from the store load on              *)
(*                                                                         *)
(* JavaScript runs each driver on one thread, so the code between two      *)
(* awaits is one step.  saveValidatorStatuses calls Bun.write without      *)
(* awaiting the promise it returns: the write is in flight after the call  *)
(* and takes effect, fails or is lost independently of the driver.  A      *)
(* write settles within the inter-cycle sleep (several minutes).           *)
(***************************************************************************)
EXTENDS Integers, Sequences, FiniteSets, TLC

(***************************************************************************)
(* Bounds of the model.                                                    *)
(***************************************************************************)
\* items in the data array of a beacon response
MaxItems == 2
\* length of a key list handed directly to fetchValidators
MaxLen == 4
\* arguments on a command line
MaxArgs == 4

(***************************************************************************)
(* Data.                                                                   *)
(***************************************************************************)
\* two validator keys; KeyOrder stands for the insertion order of the keys
\* of a JavaScript object (Object.keys / Object.entries)
KeyOrder == <<"0xaa", "0xbb">>

Keys == {KeyOrder[i] : i \in 1..Len(KeyOrder)}

Status ==
  { "pending_initialized", "pending_queued", "active_ongoing",
    "active_exiting", "active_slashed", "exited_unslashed",
    "exited_slashed", "withdrawal_possible", "withdrawal_done" }

\* the statuses the modelled beacon node answers with: the seed value, the
\* watched value, a later lifecycle stage, and a string outside the enumeration
FetchedStatus ==
  {"pending_queued", "active_ongoing", "active_exiting", "unknown_status"}

\* a falsy validator.pubkey
NoPubkey == ""

Item == [pubkey : Keys \cup {NoPubkey}, status : FetchedStatus]

\* an item without pubkey is skipped whatever its status: one representative
Items == {it \in Item : it.pubkey = NoPubkey => it.status = "pending_queued"}

RECURSIVE SeqsUpTo(_, _)
SeqsUpTo(S, n) ==
  IF n = 0 THEN {<<>>}
  ELSE LET shorter == SeqsUpTo(S, n - 1)
       IN  shorter \cup {Append(s, x) : s \in {t \in shorter : Len(t) = n - 1}, x \in S}

\* what one beacon query can come back with
\*   neterr / http / badjson : fetch rejects, response.ok is false, json() rejects
\*   null   : the body parses to null
\*   nodata : the body is an object without a data array
\*   data   : the body carries a data array
Responses ==
  {[kind |-> k, data |-> <<>>] : k \in {"neterr", "http", "badjson", "null", "nodata"}}
    \cup {[kind |-> "data", data |-> d] : d \in SeqsUpTo(Items, MaxItems)}

\* no body at hand
NoBody == [kind |-> "none", data |-> <<>>]

EmptyState == [k \in {} |-> "pending_queued"]

Put(st, k, v) == [x \in (DOMAIN st) \cup {k} |-> IF x = k THEN v ELSE st[x]]

\* the keys of an object as a list, in KeyOrder
KeyList(D) == SelectSeq(KeyOrder, LAMBDA k : k \in D)

Range(s) == {s[i] : i \in 1..Len(s)}

VARIABLES
  args,           \* process.argv.slice(2), the command line of the process
  body,           \* the parsed body handed to processFetchedValidators on its own
  driver,         \* which main() this process runs
  alive,          \* a process is running
  pc,             \* where main() stands: "off", "top", "fetching", "register", "check", "sleep"
  exit,           \* how the last process ended: "none", "code0", "code1", "signal"
  exitCause,      \* "none", "startup" / "loop" (origin of a failed write), "done", "signal"
  keyshares,      \* the parsed registration payload file: [shape, keys]
  storedState,    \* main's storedState
  newStoredState, \* main's newStoredState (per-key drivers, monitor)
  pubkeys,        \* the key list handed to fetchValidators
  toRegister,     \* transitioned keys whose registration is still to be tried
  disk,           \* validators.json: [kind, data], data the text of the file
  inflight,       \* writes started by Bun.write that have not settled
  netCount,       \* HTTP requests issued in this cycle
  lastRequest,    \* the id parameters of the last request
  registered,     \* history: keys whose payload was ever sent to registerValidators
  attempted,      \* history: keys whose payload was sent in this cycle
  regFailed,      \* history: keys whose registration call failed in this cycle
  runFailed,      \* history: keys whose registration call failed in this run
  preReconcile,   \* history: storedState handed to processFetchedValidators
  fetchedActive,  \* history: keys the last response reported as active_ongoing
  transitioned,   \* history: the to-register set the cycle computed
  outcome         \* history: how the current cycle went so far

vars ==
  << args, body, driver, alive, pc, exit, exitCause, keyshares, storedState,
     newStoredState, pubkeys, toRegister, disk, inflight, netCount, lastRequest,
     registered, attempted, regFailed, runFailed, preReconcile, fetchedActive, transitioned, outcome >>

Drivers == {"bulk", "monitor", "perkey"}

(***************************************************************************)
(* The validator status store (storage module).                            *)
(***************************************************************************)
\* JSON.stringify(statuses, null, 2): the text of the file, one "key": "status"
\* member per entry
JSONstringify(st) ==
  LET ks == KeyList(DOMAIN st)
  IN  [i \in 1..Len(ks) |-> <<ks[i], st[ks[i]]>>]

\* JSON.parse of such a text: the members are assigned in turn
RECURSIVE JSONparse(_)
JSONparse(text) ==
  IF text = <<>> THEN EmptyState
  ELSE LET member == text[Len(text)]
       IN  Put(JSONparse(SubSeq(text, 1, Len(text) - 1)), member[1], member[2])

\* the catch block is never reached: the file lets itself be read and parsed
loadUncaught(d) == JSONparse(d.data)

\* a missing or unreadable file makes Bun.file().text() reject and a corrupt
\* one makes JSON.parse throw; all are caught and give {} (the result of
\* exists() is a promise, which is never falsy, so the read is always tried);
\* a file holding null gives {} through data || {}
loadValidatorStatuses(d) == IF d.kind = "ok" THEN JSONparse(d.data) ELSE EmptyState

\* the write is started and not awaited: it joins the writes in flight
saveValidatorStatuses(statuses, origin, writes) ==
  writes \cup {[data |-> statuses, origin |-> origin]}

RECURSIVE ApplyItems(_, _)
ApplyItems(data, st) ==
  IF data = <<>> THEN st
  ELSE LET item == Head(data)
       IN  ApplyItems(Tail(data),
                      IF item.pubkey = NoPubkey THEN st
                      ELSE Put(st, item.pubkey, item.status))

\* reading response.data of a null body throws a TypeError
ProcessThrows(response) == response.kind = "null"

\* the copy of the stored record left out: the result is built from the
\* items alone
processFetchedOnly(response, st) ==
  IF response.kind # "data" THEN st ELSE ApplyItems(response.data, EmptyState)

processFetchedValidators(response, st) ==
  IF response.kind # "data" THEN st ELSE ApplyItems(response.data, st)

filterPendingOnly(st) ==
  SelectSeq(KeyList(DOMAIN st), LAMBDA k : st[k] # "active_ongoing")

(***************************************************************************)
(* The beacon query client.                                                *)
(***************************************************************************)
\* the emptiness test lost: the request goes out without ids
FetchAcceptsEmpty(list) == Len(list) < 0

FetchRejectsEmpty(list) == Len(list) = 0

\* the Set left out: every element becomes an id parameter
repeatedPubkeys(list) == list

\* [...new Set(pubkeys)]: first occurrences, in order
RECURSIVE uniquePubkeys(_)
uniquePubkeys(list) ==
  IF list = <<>> THEN <<>>
  ELSE LET front == uniquePubkeys(SubSeq(list, 1, Len(list) - 1))
           last  == list[Len(list)]
       IN  IF last \in Range(front) THEN front ELSE Append(front, last)

\* the id=<key> parameters pushed after the status parameter
QueryIds(list) == uniquePubkeys(list)

\* the outcomes of the awaited HTTP exchange that make fetchValidators throw
FetchThrows(response) == response.kind \in {"neterr", "http", "badjson"}

\* history: the status the response carries for key k (the last item wins)
RECURSIVE LastStatus(_, _)
LastStatus(data, k) ==
  IF data = <<>> THEN "absent"
  ELSE IF data[Len(data)].pubkey = k THEN data[Len(data)].status
  ELSE LastStatus(SubSeq(data, 1, Len(data) - 1), k)

FetchedActive(response) ==
  IF response.kind # "data" THEN {}
  ELSE {k \in Keys : LastStatus(response.data, k) = "active_ongoing"}

(***************************************************************************)
(* The drivers.                                                            *)
(***************************************************************************)
NoKeyshares == [shape |-> "none", keys |-> {}]

\* the payload file as main() finds it: unreadable, a JSON array of objects
\* carrying publicKey (what generate.ts writes), or a JSON object keyed by
\* public key, with a payload for either key or for both
KeysharesFiles ==
  {[shape |-> "unreadable", keys |-> {}], [shape |-> "array", keys |-> {KeyOrder[1]}]}
    \cup [shape : {"object"}, keys : {{KeyOrder[1]}, {KeyOrder[2]}, Keys}]

\* the keys extractPubkeysFromCLI returns
CliInputs == {KeyList(D) : D \in SUBSET Keys}

MissingDisk == [kind |-> "missing", data |-> EmptyState]

CorruptDisk == [kind |-> "corrupt", data |-> EmptyState]

OkDisk(st) == [kind |-> "ok", data |-> JSONstringify(st)]

\* for (pubkey of pubkeys) if (!storedState.hasOwnProperty(pubkey)) storedState[pubkey] = "pending_queued"
SeedIfAbsent(st, list) ==
  [k \in (DOMAIN st) \cup Range(list) |->
     IF k \in DOMAIN st THEN st[k] ELSE "pending_queued"]

\* for (pubkey of pubkeys) storedState[pubkey] = "pending_queued"
SeedAlways(st, list) ==
  [k \in (DOMAIN st) \cup Range(list) |->
     IF k \in Range(list) THEN "pending_queued" ELSE st[k]]

Seed(d, st, list) ==
  IF d = "monitor" THEN SeedAlways(st, list) ELSE SeedIfAbsent(st, list)

\* the keys main() seeds: the publicKey of every payload (bulk), or the
\* command line
SeedKeys(d, cli, ks) == IF d = "bulk" THEN KeyList(ks.keys) ELSE cli

\* startup throws before the store is loaded
StartupThrows(d, env, ks) ==
  \/ env = "missing"
  \/ d # "monitor" /\ ks.shape = "unreadable"
  \/ d = "bulk" /\ ks.shape = "object"       \* keyshares.reduce is not a function

\* the lookup of a transitioned key's payload
\*   bulk:    pubkeyToKeyshares[pubkey], built by reduce over the array
\*   per-key: keyshares[pubkey] on the parsed file itself
HasPayload(d, ks, k) ==
  IF d = "bulk" THEN ks.shape = "array" /\ k \in ks.keys
  ELSE ks.shape = "object" /\ k \in ks.keys

\* any entry of new whose status differs from the one in old, whatever it is
ChangedStatus(new, old) ==
  {k \in DOMAIN new : k \notin DOMAIN old \/ old[k] # new[k]}

\* status === "active_ongoing" && old[pubkey] !== "active_ongoing", over the
\* entries of new
Activated(new, old) ==
  {k \in DOMAIN new :
     new[k] = "active_ongoing" /\ (k \notin DOMAIN old \/ old[k] # "active_ongoing")}

\* the transitioned set as each driver computes it after the reconcile step
\*   bulk:    storedState has been overwritten before the comparison
\*   per-key: newStoredState against the loaded storedState
Transitions(d, new, old) ==
  IF d = "bulk" THEN Activated(new, new)
  ELSE IF d = "perkey" THEN Activated(new, old)
  ELSE {}

\* what is left to try: the bulk driver keeps the payloads it found
ToRegister(d, ks, trans) ==
  IF d = "bulk" THEN {k \in trans : HasPayload(d, ks, k)} ELSE trans

\* the test that ends the loop
NothingPending(d, st, new) ==
  IF d = "bulk" THEN Len(filterPendingOnly(st)) = 0 ELSE DOMAIN new = {}


Init ==
  /\ args = <<>>
  /\ body = NoBody
  /\ driver = "none"
  /\ alive = FALSE
  /\ pc = "off"
  /\ exit = "none"
  /\ exitCause = "none"
  /\ keyshares = NoKeyshares
  /\ storedState = EmptyState
  /\ newStoredState = EmptyState
  /\ pubkeys = <<>>
  /\ toRegister = {}
  /\ disk = MissingDisk
  /\ inflight = {}
  /\ netCount = 0
  /\ lastRequest = <<>>
  /\ registered = {}
  /\ attempted = {}
  /\ regFailed = {}
  /\ runFailed = {}
  /\ preReconcile = EmptyState
  /\ fetchedActive = {}
  /\ transitioned = {}
  /\ outcome = "none"

\* the store is loaded, seeded and saved before the settings and the payload
\* file are looked at
StartupWritesFirst(throws, seeds, seeded, writes) ==
  IF Len(seeds) = 0 THEN writes
  ELSE saveValidatorStatuses(seeded, "startup", writes)

\* the writes in flight when startup is over: the settings are read, the
\* registration client is set up and the payload file is loaded first, and
\* only then is the store loaded, seeded and saved
StartupWrites(throws, seeds, seeded, writes) ==
  IF throws \/ Len(seeds) = 0 THEN writes
  ELSE saveValidatorStatuses(seeded, "startup", writes)

\* main() from its first line to the top of while (true)
Start(d, cli, env, ks) ==
  /\ ~alive
  /\ inflight = {}
  /\ driver' = d
  /\ newStoredState' = EmptyState
  /\ pubkeys' = <<>>
  /\ toRegister' = {}
  /\ preReconcile' = EmptyState
  /\ fetchedActive' = {}
  /\ transitioned' = {}
  /\ outcome' = "none"
  /\ netCount' = 0
  /\ lastRequest' = <<>>
  /\ attempted' = {}
  /\ regFailed' = {}
  /\ runFailed' = {}
  /\ UNCHANGED <<args, body, disk, registered>>
  /\ LET throws == StartupThrows(d, env, ks)
         loaded == loadValidatorStatuses(disk)
         seeds  == SeedKeys(d, cli, ks)
         seeded == Seed(d, loaded, seeds)
     IN  /\ inflight' = StartupWrites(throws, seeds, seeded, inflight)
         /\ IF throws
            THEN /\ alive' = FALSE
                 /\ pc' = "off"
                 /\ exit' = "code1"
                 /\ exitCause' = "startup"
                 /\ keyshares' = NoKeyshares
                 /\ storedState' = EmptyState
            ELSE /\ alive' = TRUE
                 /\ pc' = "top"
                 /\ exit' = "none"
                 /\ exitCause' = "none"
                 /\ keyshares' = ks
                 /\ storedState' = IF Len(seeds) > 0 THEN seeded ELSE loaded

StartProcess ==
  \E d \in Drivers, cli \in CliInputs, env \in {"ok", "missing"},
     ks \in KeysharesFiles \cup {NoKeyshares} :
    /\ (d = "monitor") = (ks = NoKeyshares)
    /\ d = "bulk" => cli = <<>>
    /\ Start(d, cli, env, ks)

\* a catch block that logs and lets the while loop go round at once
AfterCatchNoSleep == "top"

\* where main() goes when a step of the cycle throws: the catch block of
\* the loop logs the error and awaits the same timer as the success path
AfterCatch == "sleep"

\* the top of the try block up to the await inside fetchValidators
CycleBegin ==
  /\ alive
  /\ pc = "top"
  /\ LET st   == IF driver = "bulk" THEN storedState ELSE loadValidatorStatuses(disk)
         list == IF driver = "monitor" THEN KeyList(DOMAIN st) ELSE filterPendingOnly(st)
     IN  /\ storedState' = st
         /\ pubkeys' = list
         /\ IF FetchRejectsEmpty(list)
            THEN /\ pc' = AfterCatch
                 /\ outcome' = "threw"
                 /\ netCount' = 0
                 /\ lastRequest' = <<>>
            ELSE /\ pc' = "fetching"
                 /\ outcome' = "none"
                 /\ netCount' = 1
                 /\ lastRequest' = QueryIds(list)
  /\ newStoredState' = EmptyState
  /\ toRegister' = {}
  /\ preReconcile' = EmptyState
  /\ fetchedActive' = {}
  /\ transitioned' = {}
  /\ UNCHANGED <<args, body, driver, alive, exit, exitCause, keyshares, disk, inflight,
                 registered>>
  /\ attempted' = {}
  /\ regFailed' = {}
  /\ runFailed' = runFailed

\* the HTTP exchange settles; reconcile, save and the search for transitions
FetchReturn(response) ==
  /\ alive
  /\ pc = "fetching"
  /\ IF FetchThrows(response) \/ ProcessThrows(response)
     THEN /\ pc' = AfterCatch
          /\ outcome' = "threw"
          /\ UNCHANGED <<storedState, newStoredState, toRegister, inflight,
                         preReconcile, fetchedActive, transitioned>>
     ELSE LET new   == processFetchedValidators(response, storedState)
              trans == Transitions(driver, new, storedState)
              todo  == ToRegister(driver, keyshares, trans)
          IN  /\ preReconcile' = storedState
              /\ fetchedActive' = FetchedActive(response)
              /\ storedState' = IF driver = "bulk" THEN new ELSE storedState
              /\ newStoredState' = IF driver = "bulk" THEN newStoredState ELSE new
              /\ inflight' = IF driver = "monitor" THEN inflight
                             ELSE saveValidatorStatuses(new, "loop", inflight)
              /\ transitioned' = trans
              /\ toRegister' = todo
              /\ outcome' = "reconciled"
              /\ pc' = IF todo # {} THEN "register" ELSE "check"
  /\ UNCHANGED <<args, body, driver, alive, exit, exitCause, keyshares, pubkeys,
                 disk, netCount, lastRequest, registered, attempted, regFailed, runFailed>>

BeaconAnswers == \E response \in Responses : FetchReturn(response)

\* the registration call rejects and nothing inside the loop over the keys
\* catches it: the cycle's catch block takes over
AfterRegisterUncaught(ok, left) ==
  IF ~ok THEN "sleep" ELSE IF left = {} THEN "check" ELSE "register"

\* where main() goes after a registration call: a failed call is caught
\* and logged next to the call, so the loop over the keys goes on
AfterRegister(ok, left) == IF left = {} THEN "check" ELSE "register"

\* a key without a payload ends the whole registration loop (break for continue)
RemainingBreak(d, todo, k) ==
  IF d = "bulk" \/ ~HasPayload(d, keyshares, k) THEN {} ELSE todo \ {k}

\* the keys still to be tried once k has been dealt with: the bulk driver
\* sends its whole list in one call; the per-key for loop moves on to the
\* next key, after a call and after the continue of a missing payload alike
Remaining(d, todo, k) ==
  IF d = "bulk" THEN {} ELSE todo \ {k}

\* one awaited sdk.clusters.registerValidators call, which succeeds or fails,
\* or the skip of a key without payload
Register ==
  /\ alive
  /\ pc = "register"
  /\ LET k    == CHOOSE x \in toRegister : \A y \in toRegister :
                   \E i, j \in 1..Len(KeyOrder) :
                     KeyOrder[i] = x /\ KeyOrder[j] = y /\ i <= j
         sent == IF driver = "bulk" THEN toRegister
                 ELSE IF HasPayload(driver, keyshares, k) THEN {k} ELSE {}
         left == Remaining(driver, toRegister, k)
     IN  \E ok \in BOOLEAN :
           /\ sent = {} => ok
           /\ registered' = registered \cup sent
           /\ attempted' = attempted \cup sent
           /\ regFailed' = IF ok THEN regFailed ELSE regFailed \cup sent
           /\ runFailed' = IF ok THEN runFailed ELSE runFailed \cup sent
           /\ toRegister' = left
           /\ pc' = AfterRegister(ok, left)
  /\ UNCHANGED <<args, body, driver, alive, exit, exitCause, keyshares, storedState,
                 newStoredState, pubkeys, disk, inflight, netCount, lastRequest,
                 preReconcile, fetchedActive, transitioned, outcome>>

\* the test after the registrations: clear and exit, or sleep
TerminationCheck ==
  /\ alive
  /\ pc = "check"
  /\ IF NothingPending(driver, storedState, newStoredState)
     THEN /\ inflight' = saveValidatorStatuses(EmptyState, "loop", inflight)
          /\ alive' = FALSE
          /\ pc' = "off"
          /\ exit' = "code0"
          /\ exitCause' = "done"
          /\ outcome' = "exited"
          /\ UNCHANGED <<newStoredState, preReconcile, fetchedActive, transitioned,
                         attempted, regFailed, runFailed>>
     ELSE \* the block-scoped values of the cycle end with the try block
          /\ pc' = "sleep"
          /\ outcome' = "slept"
          /\ newStoredState' = EmptyState
          /\ preReconcile' = EmptyState
          /\ fetchedActive' = {}
          /\ transitioned' = {}
          /\ attempted' = {}
          /\ regFailed' = {}
          /\ runFailed' = runFailed
          /\ UNCHANGED <<inflight, alive, exit, exitCause>>
  /\ UNCHANGED <<args, body, driver, keyshares, storedState, pubkeys, toRegister, disk,
                 netCount, lastRequest, registered>>

\* the setTimeout resolves and the loop goes round
Wake ==
  /\ alive
  /\ pc = "sleep"
  /\ inflight = {}
  /\ pc' = "top"
  /\ UNCHANGED <<args, body, driver, alive, exit, exitCause, keyshares, storedState,
                 newStoredState, pubkeys, toRegister, disk, inflight, netCount,
                 lastRequest, registered, attempted, regFailed, runFailed, preReconcile, fetchedActive, transitioned,
                 outcome>>

(***************************************************************************)
(* The writes in flight and the environment.                               *)
(***************************************************************************)
\* the memory of a process
volatile ==
  << keyshares, storedState, newStoredState, pubkeys, toRegister, netCount,
     lastRequest, preReconcile, fetchedActive, transitioned, outcome, attempted, regFailed, runFailed >>

\* the memory of a process that ended abnormally is gone
Reset ==
  /\ keyshares' = NoKeyshares
  /\ storedState' = EmptyState
  /\ newStoredState' = EmptyState
  /\ pubkeys' = <<>>
  /\ toRegister' = {}
  /\ netCount' = 0
  /\ lastRequest' = <<>>
  /\ preReconcile' = EmptyState
  /\ fetchedActive' = {}
  /\ transitioned' = {}
  /\ outcome' = "none"
  /\ attempted' = {}
  /\ regFailed' = {}
  /\ runFailed' = {}

\* a write started by Bun.write takes effect; the code from the end of an
\* await to the termination test runs without a pause, so "check" is passed
\* in no time
WriteLands ==
  \E w \in inflight :
    /\ pc # "check"
    /\ disk' = OkDisk(w.data)
    /\ inflight' = inflight \ {w}
    /\ UNCHANGED <<args, body, driver, alive, pc, exit, exitCause, keyshares,
                   storedState, newStoredState, pubkeys, toRegister, netCount,
                   lastRequest, registered, attempted, regFailed, runFailed, preReconcile, fetchedActive, transitioned,
                   outcome>>

\* a write fails: the promise Bun.write returned rejects and nothing handles
\* it; the runtime either reports it and goes on or ends the process with
\* code 1
WriteFails ==
  \E w \in inflight, fatal \in BOOLEAN :
    /\ alive
    /\ pc # "check"
    /\ inflight' = inflight \ {w}
    /\ IF fatal
       THEN /\ alive' = FALSE
            /\ pc' = "off"
            /\ exit' = "code1"
            /\ exitCause' = w.origin
            /\ Reset
       ELSE UNCHANGED <<alive, pc, exit, exitCause, volatile>>
    /\ UNCHANGED <<args, body, driver, disk, registered>>

\* the process has ended before a write it started took effect
WriteLost ==
  \E w \in inflight :
    /\ ~alive
    /\ inflight' = inflight \ {w}
    /\ UNCHANGED <<args, body, driver, alive, pc, exit, exitCause, keyshares,
                   storedState, newStoredState, pubkeys, toRegister, disk, netCount,
                   lastRequest, registered, attempted, regFailed, runFailed, preReconcile, fetchedActive, transitioned,
                   outcome>>

\* the operator interrupts the process
Kill ==
  /\ alive
  /\ pc # "check"
  /\ alive' = FALSE
  /\ pc' = "off"
  /\ exit' = "signal"
  /\ exitCause' = "signal"
  /\ Reset
  /\ UNCHANGED <<args, body, driver, disk, inflight, registered>>

\* validators.json is deleted or damaged while no process runs
StoreLoss ==
  /\ ~alive
  /\ inflight = {}
  /\ disk.kind = "ok"
  /\ disk' \in {MissingDisk, CorruptDisk}
  /\ UNCHANGED <<args, body, driver, alive, pc, exit, exitCause, keyshares,
                 storedState, newStoredState, pubkeys, toRegister, inflight, netCount,
                 lastRequest, registered, attempted, regFailed, runFailed, preReconcile, fetchedActive, transitioned,
                 outcome>>

Next ==
  \/ StartProcess
  \/ CycleBegin
  \/ BeaconAnswers
  \/ Register
  \/ TerminationCheck
  \/ Wake
  \/ WriteLands
  \/ WriteFails
  \/ WriteLost
  \/ Kill
  \/ StoreLoss

Spec == Init /\ [][Next]_vars

(***************************************************************************)
(* fetchValidators on its own: any key list, repeated keys and a key in    *)
(* another letter case included.                                           *)
(***************************************************************************)
ListKeys == Keys \cup {"0xAA"}

InitFetch ==
  /\ args = <<>>
  /\ body = NoBody
  /\ driver = "none"
  /\ alive = FALSE
  /\ pc = "call"
  /\ exit = "none"
  /\ exitCause = "none"
  /\ keyshares = NoKeyshares
  /\ storedState = EmptyState
  /\ newStoredState = EmptyState
  /\ pubkeys \in SeqsUpTo(ListKeys, MaxLen)
  /\ toRegister = {}
  /\ disk = MissingDisk
  /\ inflight = {}
  /\ netCount = 0
  /\ lastRequest = <<>>
  /\ registered = {}
  /\ attempted = {}
  /\ regFailed = {}
  /\ runFailed = {}
  /\ preReconcile = EmptyState
  /\ fetchedActive = {}
  /\ transitioned = {}
  /\ outcome = "none"

\* fetchValidators from its first line to the await of fetch()
FetchCall ==
  /\ pc = "call"
  /\ IF FetchRejectsEmpty(pubkeys)
     THEN /\ pc' = "threw"
          /\ UNCHANGED <<netCount, lastRequest>>
     ELSE /\ pc' = "fetching"
          /\ netCount' = netCount + 1
          /\ lastRequest' = QueryIds(pubkeys)
  /\ UNCHANGED <<args, body, driver, alive, exit, exitCause, keyshares, storedState,
                 newStoredState, pubkeys, toRegister, disk, inflight, registered,
                 attempted, regFailed, runFailed, preReconcile, fetchedActive, transitioned, outcome>>

\* the exchange settles: the body is returned or the error is rethrown
FetchSettle ==
  \E response \in Responses :
    /\ pc = "fetching"
    /\ pc' = IF FetchThrows(response) THEN "threw" ELSE "returned"
    /\ outcome' = response.kind
    /\ UNCHANGED <<args, body, driver, alive, exit, exitCause, keyshares, storedState,
                   newStoredState, pubkeys, toRegister, disk, inflight, netCount,
                   lastRequest, registered, attempted, regFailed, runFailed, preReconcile, fetchedActive,
                   transitioned>>

NextFetch == FetchCall \/ FetchSettle

SpecFetch == InitFetch /\ [][NextFetch]_vars

(***************************************************************************)
(* The storage module on its own: saveValidatorStatuses and                *)
(* loadValidatorStatuses on any valid record and any state of the file.    *)
(***************************************************************************)
\* the valid status records over the modelled keys
StatusRecords == UNION {[D -> Status] : D \in SUBSET Keys}

\* the records the file holds at the start
FileRecords == {r \in StatusRecords : \A k \in DOMAIN r : r[k] \in FetchedStatus}

\* validators.json as a call can find it: missing, unreadable, holding null,
\* holding a text JSON.parse rejects (a cut-off write), or holding a record
StoreFiles ==
  {MissingDisk, [kind |-> "unreadable", data |-> <<>>], [kind |-> "null", data |-> <<>>]}
    \cup {[kind |-> "corrupt", data |-> JSONstringify(r)] : r \in FileRecords}
    \cup {OkDisk(r) : r \in FileRecords}

InitStore ==
  /\ args = <<>>
  /\ body = NoBody
  /\ driver = "none"
  /\ alive = FALSE
  /\ pc = "idle"
  /\ exit = "none"
  /\ exitCause = "none"
  /\ keyshares = NoKeyshares
  /\ storedState \in StatusRecords
  /\ newStoredState = EmptyState
  /\ pubkeys = <<>>
  /\ toRegister = {}
  /\ disk \in StoreFiles
  /\ inflight = {}
  /\ netCount = 0
  /\ lastRequest = <<>>
  /\ registered = {}
  /\ attempted = {}
  /\ regFailed = {}
  /\ runFailed = {}
  /\ preReconcile = EmptyState
  /\ fetchedActive = {}
  /\ transitioned = {}
  /\ outcome = "none"

\* saveValidatorStatuses(storedState): Bun.write is called, its promise is dropped
\* and the function returns to its caller
SaveCall ==
  /\ pc = "idle"
  /\ pc' = "saved"
  /\ inflight' = saveValidatorStatuses(storedState, "startup", inflight)
  /\ UNCHANGED <<args, body, driver, alive, exit, exitCause, keyshares, storedState,
                 newStoredState, pubkeys, toRegister, disk, netCount, lastRequest,
                 registered, attempted, regFailed, runFailed, preReconcile, fetchedActive, transitioned,
                 outcome>>

\* the promise of Bun.write settles: the file holds the text, or the write
\* failed and the file is as it was
SaveSettles ==
  \E w \in inflight, ok \in BOOLEAN :
    /\ pc \in {"saved", "reloaded"}
    /\ inflight' = inflight \ {w}
    /\ disk' = IF ok THEN OkDisk(w.data) ELSE disk
    /\ outcome' = IF ok THEN "landed" ELSE "failed"
    /\ UNCHANGED <<args, body, driver, alive, pc, exit, exitCause, keyshares, storedState,
                   newStoredState, pubkeys, toRegister, netCount, lastRequest,
                   registered, attempted, regFailed, runFailed, preReconcile, fetchedActive, transitioned>>

\* await loadValidatorStatuses(), as the first operation or as the next
\* operation after a save
LoadCall ==
  /\ pc \in {"idle", "saved"}
  /\ pc' = IF pc = "idle" THEN "loaded" ELSE "reloaded"
  /\ newStoredState' = loadValidatorStatuses(disk)
  /\ UNCHANGED <<args, body, driver, alive, exit, exitCause, keyshares, storedState,
                 pubkeys, toRegister, disk, inflight, netCount, lastRequest,
                 registered, attempted, regFailed, runFailed, preReconcile, fetchedActive, transitioned,
                 outcome>>

NextStore == SaveCall \/ SaveSettles \/ LoadCall

SpecStore == InitStore /\ [][NextStore]_vars

(***************************************************************************)
(* The ingestion of keys on its own: the command line as                   *)
(* extractPubkeysFromCLI and validatePubkey read it, the publicKey values  *)
(* of the payload file, and the seeding they feed.                         *)
(***************************************************************************)
Rep(c, n) == [i \in 1..n |-> c]

\* two keys of full length (0x and 96 hex digits)
FullKeyA == "0xaaaaaaaaaaaaaaaaaaaaaaaaaaaaaaaaaaaaaaaaaaaaaaaaaaaaaaaaaaaaaaaaaaaaaaaaaaaaaaaaaaaaaaaaaaaaaaaa"

FullKeyB == "0xbbbbbbbbbbbbbbbbbbbbbbbbbbbbbbbbbbbbbbbbbbbbbbbbbbbbbbbbbbbbbbbbbbbbbbbbbbbbbbbbbbbbbbbbbbbbbbbb"

\* 0x-prefixed hex of another length, upper-case hex with an upper-case
\* prefix, hex without prefix, a prefix followed by letters that are no hex
ShortKey == "0xab"

UpperKey == "0XAB"

BareKey == "ab"

NotHexKey == "0xzz"

KeyLike == <<FullKeyA, FullKeyB, ShortKey, UpperKey, BareKey, NotHexKey>>

ArgTokens == {"--pubkey", "-p", "--help"} \cup Range(KeyLike)

\* the characters of a command-line argument
Chars(arg) ==
  CASE arg = FullKeyA   -> <<"0", "x">> \o Rep("a", 96)
    [] arg = FullKeyB   -> <<"0", "x">> \o Rep("b", 96)
    [] arg = ShortKey   -> <<"0", "x", "a", "b">>
    [] arg = UpperKey   -> <<"0", "X", "A", "B">>
    [] arg = BareKey    -> <<"a", "b">>
    [] arg = NotHexKey  -> <<"0", "x", "z", "z">>
    [] arg = "--pubkey" -> <<"-", "-", "p", "u", "b", "k", "e", "y">>
    [] arg = "-p"       -> <<"-", "p">>
    [] arg = "--help"   -> <<"-", "-", "h", "e", "l", "p">>

\* String.prototype.toLowerCase, on the letters that occur
toLowerCase(cs) ==
  [i \in 1..Len(cs) |->
     CASE cs[i] = "A" -> "a" [] cs[i] = "B" -> "b" [] cs[i] = "C" -> "c"
       [] cs[i] = "D" -> "d" [] cs[i] = "E" -> "e" [] cs[i] = "F" -> "f"
       [] cs[i] = "X" -> "x" [] OTHER -> cs[i]]

\* String.prototype.trim
RECURSIVE trim(_)
trim(cs) ==
  IF cs = <<>> THEN cs
  ELSE IF Head(cs) = " " THEN trim(Tail(cs))
  ELSE IF cs[Len(cs)] = " " THEN trim(SubSeq(cs, 1, Len(cs) - 1))
  ELSE cs

HexDigits ==
  {"0", "1", "2", "3", "4", "5", "6", "7", "8", "9", "a", "b", "c", "d", "e", "f"}

\* startsWith("0x") and /^[0-9a-f]+$/ on the rest, of the lower-cased argument
validatePubkey(pubkey) ==
  LET trimmed == trim(toLowerCase(Chars(pubkey)))
      hexPart == SubSeq(trimmed, 3, Len(trimmed))
  IN  /\ Len(trimmed) >= 2 /\ trimmed[1] = "0" /\ trimmed[2] = "x"
      /\ Len(hexPart) >= 1
      /\ \A i \in 1..Len(hexPart) : hexPart[i] \in HexDigits

\* /^--?p$/ or /^--?pubkey$/
IsPubkeyFlag(arg) ==
  Chars(arg) \in { <<"-", "p">>, <<"-", "-", "p">>,
                   <<"-", "p", "u", "b", "k", "e", "y">>,
                   <<"-", "-", "p", "u", "b", "k", "e", "y">> }

\* /^--?h$/ or /^--help$/
IsHelpFlag(arg) ==
  Chars(arg) \in { <<"-", "h">>, <<"-", "-", "h">>, <<"-", "-", "h", "e", "l", "p">> }

\* the for loop of extractPubkeysFromCLI from argument i on: a pubkey flag
\* returns [], a help flag prints the help and exits with code 0, a valid key
\* is pushed as it was given, anything else is passed over
RECURSIVE ScanArgs(_, _, _)
ScanArgs(list, i, found) ==
  IF i > Len(list) THEN [help |-> FALSE, pubkeys |-> found]
  ELSE IF IsPubkeyFlag(list[i]) THEN [help |-> FALSE, pubkeys |-> <<>>]
  ELSE IF IsHelpFlag(list[i]) THEN [help |-> TRUE, pubkeys |-> <<>>]
  ELSE ScanArgs(list, i + 1,
                IF validatePubkey(list[i]) THEN Append(found, list[i]) ELSE found)

extractPubkeysFromCLI(list) == ScanArgs(list, 1, <<>>).pubkeys

ShowsHelp(list) == ScanArgs(list, 1, <<>>).help

\* keyshares.map((k) => k.publicKey): the publicKey values as the file has them
PayloadKeys(ks) == SelectSeq(KeyLike, LAMBDA k : k \in ks.keys)

\* the payload files of the bulk driver: an array whose publicKey values
\* are any of the key-like strings
PayloadFiles == [shape : {"array"}, keys : SUBSET Range(KeyLike)]

InitCli ==
  /\ body = NoBody
  /\ driver \in Drivers
  /\ args \in SeqsUpTo(ArgTokens, MaxArgs)
  /\ keyshares \in PayloadFiles \cup {NoKeyshares}
  /\ (driver = "bulk") = (keyshares # NoKeyshares)
  /\ driver = "bulk" => args = <<>>
  /\ alive = TRUE
  /\ pc = "argv"
  /\ exit = "none"
  /\ exitCause = "none"
  /\ storedState = EmptyState
  /\ newStoredState = EmptyState
  /\ pubkeys = <<>>
  /\ toRegister = {}
  /\ disk = MissingDisk
  /\ inflight = {}
  /\ netCount = 0
  /\ lastRequest = <<>>
  /\ registered = {}
  /\ attempted = {}
  /\ regFailed = {}
  /\ runFailed = {}
  /\ preReconcile = EmptyState
  /\ fetchedActive = {}
  /\ transitioned = {}
  /\ outcome = "none"

\* the keys main() is given: extractPubkeysFromCLI(args), or the publicKey
\* values of the payload file (bulk driver)
ExtractCall ==
  /\ pc = "argv"
  /\ IF driver # "bulk" /\ ShowsHelp(args)
     THEN /\ alive' = FALSE
          /\ pc' = "off"
          /\ exit' = "code0"
          /\ exitCause' = "help"
          /\ UNCHANGED pubkeys
     ELSE /\ pubkeys' = IF driver = "bulk" THEN PayloadKeys(keyshares)
                        ELSE extractPubkeysFromCLI(args)
          /\ pc' = "seed"
          /\ UNCHANGED <<alive, exit, exitCause>>
  /\ UNCHANGED <<args, body, driver, keyshares, storedState, newStoredState, toRegister,
                 disk, inflight, netCount, lastRequest, registered, attempted,
                 regFailed, runFailed, preReconcile, fetchedActive, transitioned, outcome>>

\* the store is loaded, the keys are seeded and the store is saved
SeedCall ==
  /\ pc = "seed"
  /\ pc' = "top"
  /\ LET loaded == loadValidatorStatuses(disk)
         seeded == Seed(driver, loaded, pubkeys)
     IN  /\ storedState' = IF Len(pubkeys) > 0 THEN seeded ELSE loaded
         /\ inflight' = IF Len(pubkeys) > 0
                        THEN saveValidatorStatuses(seeded, "startup", inflight)
                        ELSE inflight
  /\ UNCHANGED <<args, body, driver, alive, exit, exitCause, keyshares, newStoredState,
                 pubkeys, toRegister, disk, netCount, lastRequest, registered,
                 attempted, regFailed, runFailed, preReconcile, fetchedActive, transitioned,
                 outcome>>

NextCli == ExtractCall \/ SeedCall

SpecCli == InitCli /\ [][NextCli]_vars

(***************************************************************************)
(***************************************************************************)
(* processFetchedValidators on its own: any valid stored record and any    *)
(* body fetchValidators can return.                                        *)
(***************************************************************************)
\* what fetchValidators returns when it does not throw
Bodies == {r \in Responses : ~FetchThrows(r)}

InitReconcile ==
  /\ args = <<>>
  /\ body \in Bodies
  /\ driver = "none"
  /\ alive = FALSE
  /\ pc = "call"
  /\ exit = "none"
  /\ exitCause = "none"
  /\ keyshares = NoKeyshares
  /\ storedState \in StatusRecords
  /\ newStoredState = EmptyState
  /\ pubkeys = <<>>
  /\ toRegister = {}
  /\ disk = MissingDisk
  /\ inflight = {}
  /\ netCount = 0
  /\ lastRequest = <<>>
  /\ registered = {}
  /\ attempted = {}
  /\ regFailed = {}
  /\ runFailed = {}
  /\ preReconcile = EmptyState
  /\ fetchedActive = {}
  /\ transitioned = {}
  /\ outcome = "none"

\* newStoredState = processFetchedValidators(body, storedState)
ReconcileCall ==
  /\ pc = "call"
  /\ IF ProcessThrows(body)
     THEN /\ pc' = "threw"
          /\ UNCHANGED newStoredState
     ELSE /\ pc' = "returned"
          /\ newStoredState' = processFetchedValidators(body, storedState)
  /\ UNCHANGED <<args, body, driver, alive, exit, exitCause, keyshares,
                 storedState, pubkeys, toRegister, disk, inflight, netCount,
                 lastRequest, registered, attempted, regFailed, runFailed, preReconcile,
                 fetchedActive, transitioned, outcome>>

NextReconcile == ReconcileCall

SpecReconcile == InitReconcile /\ [][NextReconcile]_vars

(* The claims.                                                             *)
(***************************************************************************)
\* the record the reconcile step produced, where each driver keeps it
Reconciled == IF driver = "bulk" THEN storedState ELSE newStoredState

Registering == {"bulk", "perkey"}

JustReconciled == outcome = "reconciled" /\ pc \in {"register", "check"}

ClearWrite == [data |-> EmptyState, origin |-> "loop"]

LaterStages == Status \ {"pending_initialized", "pending_queued"}

\* C1 (as claimed): in every cycle of a registering driver (bulk, per-key), a
\* stored key that was not active_ongoing before the reconcile step and is
\* fetched as active_ongoing is in the cycle's transitioned set, and a key
\* that was already active_ongoing is not.
C1_EdgeTrigger ==
  (driver \in Registering /\ JustReconciled) =>
    \A k \in DOMAIN preReconcile :
      /\ (preReconcile[k] # "active_ongoing" /\ k \in fetchedActive)
            => k \in transitioned
      /\ preReconcile[k] = "active_ongoing" => k \notin transitioned

\* C2 (as claimed): from a store {K: pending_queued}, with a payload for K in
\* an array-shaped input file, a fetch that reports K active_ongoing makes
\* the store {K: active_ongoing}, has the registration attempted for K and,
\* in the same cycle, the store cleared and the process exit with code 0.
C2_EndToEnd ==
  [][\A K \in Keys :
       ( /\ driver \in Registering
         /\ pc = "check"
         /\ outcome = "reconciled"
         /\ preReconcile = (K :> "pending_queued")
         /\ fetchedActive = {K}
         /\ DOMAIN Reconciled = {K}
         /\ keyshares.shape = "array"
         /\ K \in keyshares.keys )
       => ( /\ Reconciled[K] = "active_ongoing"
            /\ K \in attempted
            /\ exit' = "code0"
            /\ ClearWrite \in inflight' )]_vars

\* C3 (as claimed): over any run, restarts, store loss and re-supplied keys
\* included, the registration call is attempted at most once for a key.
C3_AtMostOnce ==
  [][\A k \in Keys : (k \in attempted' /\ k \notin attempted) => k \notin registered]_vars

\* C4 (as claimed): in every driver, a cycle whose reconcile step leaves no
\* key with a status other than active_ongoing writes {} and exits with
\* code 0 instead of sleeping.
C4_Termination ==
  [][(pc = "check" /\ outcome = "reconciled" /\ Len(filterPendingOnly(Reconciled)) = 0)
       => (exit' = "code0" /\ ~alive' /\ ClearWrite \in inflight')]_vars

\* C5 (as claimed): in every driver, seeding leaves the status of every key
\* the loaded store already has unchanged, and adds the other supplied keys
\* as pending_queued.
C5_IdempotentSeeding ==
  [][(~alive /\ alive') =>
       LET loaded == loadValidatorStatuses(disk)
       IN  /\ \A k \in DOMAIN loaded :
                k \in DOMAIN storedState' /\ storedState'[k] = loaded[k]
           /\ \A k \in (DOMAIN storedState') \ (DOMAIN loaded) :
                storedState'[k] = "pending_queued"]_vars

\* C6 (as claimed): a poll cycle (query, processFetchedValidators, save)
\* never changes a stored active_ongoing to another value, whatever the
\* response carries.
C6_NoDowngrade ==
  [][(driver \in Registering /\ pc = "fetching" /\ outcome' = "reconciled") =>
       \A k \in DOMAIN storedState :
         storedState[k] = "active_ongoing" => Reconciled'[k] = "active_ongoing"]_vars

\* C7 (as claimed): a key stored as active_ongoing or a later lifecycle stage
\* is not in the list filterPendingOnly returns, and is not queried again.
C7_PendingClassification ==
  /\ \A k \in DOMAIN storedState :
       storedState[k] \in LaterStages => k \notin Range(filterPendingOnly(storedState))
  /\ (driver \in Registering /\ pc = "fetching") =>
       \A k \in Range(lastRequest) : storedState[k] \notin LaterStages

\* C8: fetchValidators called with an empty key list throws and no request
\* has been issued.
C8_EmptyListRejected ==
  (pubkeys = <<>> /\ pc # "call") => (pc = "threw" /\ netCount = 0 /\ lastRequest = <<>>)

\* C8 witness: the call with the empty list has been made
C8_Witness == pubkeys = <<>> /\ pc = "threw"

\* the request of a call: one id parameter per distinct key, one request
OneIdPerKey ==
  /\ netCount = 1
  /\ Range(lastRequest) = Range(pubkeys)
  /\ Len(lastRequest) = Cardinality(Range(pubkeys))

\* C9 (as claimed): for every key list passed to fetchValidators, one
\* request is issued and it carries one id parameter per distinct key.
C9_DedupEveryList == pc # "call" => OneIdPerKey

\* C9 (amended): for every non-empty key list passed to fetchValidators, one
\* request is issued and it carries one id parameter per distinct key of the
\* list, however often a key is repeated.
C9_DedupNonEmpty == (pc # "call" /\ pubkeys # <<>>) => OneIdPerKey

\* C9 witness: a list with a repeated key has been queried
C9_Witness ==
  /\ pc = "fetching"
  /\ Len(pubkeys) > Cardinality(Range(pubkeys))
  /\ Cardinality(Range(pubkeys)) > 1

\* C10 (as claimed): an exception thrown inside a cycle leaves the process
\* alive and sleeping towards the next cycle, and the process exits with
\* code 1 only for errors raised before the loop is entered.
C10_CycleErrorsNotFatal ==
  /\ outcome = "threw" => (alive /\ pc \in {"sleep", "top"})
  /\ exit = "code1" => exitCause = "startup"

\* C11 (as claimed): when the write of the store fails, saveValidatorStatuses
\* has raised an error to its caller instead of returning.
C11_SaveFailurePropagates == outcome = "failed" => pc = "threw"

\* C14 (as claimed): a load that follows a save whose write did not fail, the
\* load being the very next operation included, returns the saved record.
C14_RoundTrip ==
  (pc = "reloaded" /\ outcome # "failed") => newStoredState = storedState

\* C15: loadValidatorStatuses on a missing, unreadable or unparseable file
\* returns the empty record.
C15_LoadFailsSoft ==
  (pc \in {"loaded", "reloaded"} /\ disk.kind \in {"missing", "unreadable", "corrupt"})
    => newStoredState = EmptyState

\* C15 witness: a file holding a cut-off text has been loaded
C15_Witness == pc = "loaded" /\ disk.kind = "corrupt" /\ disk.data # <<>>

\* C12: a registration call that fails leaves the process running, leaves
\* the reconciled status of the keys it was made for at active_ongoing and
\* leaves the cycle on its way to the termination test; at the test, a
\* cycle with a failed call and keys still pending goes to sleep.
C12_DispatchFailureContained ==
  [][/\ (pc = "register" /\ regFailed' # regFailed /\ regFailed \subseteq regFailed') =>
          /\ alive' /\ exit' = "none"
          /\ pc' \in {"register", "check"}
          /\ storedState' = storedState /\ newStoredState' = newStoredState
          /\ \A k \in regFailed' : Reconciled'[k] = "active_ongoing"
     /\ (pc = "check" /\ regFailed # {} /\ Len(filterPendingOnly(Reconciled)) > 0) =>
          (alive' /\ pc' = "sleep")]_vars

\* C12 witness: a cycle in which a registration call failed stands at its
\* termination test
C12_Witness == alive /\ pc = "check" /\ regFailed # {}

\* a command line as the help text of the monitor shows it: --pubkey K or
\* -p K, repeated, with K a key of full length
DocumentedUsage(list) ==
  /\ Len(list) > 0 /\ Len(list) % 2 = 0
  /\ \A i \in 1..Len(list) :
       IF i % 2 = 1 THEN list[i] \in {"--pubkey", "-p"}
       ELSE list[i] \in {FullKeyA, FullKeyB}

DocumentedKeys(list) == [i \in 1..(Len(list) \div 2) |-> list[2 * i]]

\* C13 (as claimed): on a command line of the documented form,
\* extractPubkeysFromCLI returns the keys given and they are seeded.
C13_DocumentedUsage ==
  (driver \in {"monitor", "perkey"} /\ pc \in {"seed", "top"} /\ DocumentedUsage(args)) =>
     /\ pubkeys = DocumentedKeys(args)
     /\ pc = "top" => Range(DocumentedKeys(args)) \subseteq DOMAIN storedState

\* 0x followed by 96 hex digits
WellFormedKey(k) ==
  LET cs == Chars(k)
  IN  /\ Len(cs) = 98 /\ cs[1] = "0" /\ cs[2] = "x"
      /\ \A i \in 3..Len(cs) : toLowerCase(cs)[i] \in HexDigits

\* C16 (as claimed): every key of the in-memory store and of a record handed
\* to the file is 0x followed by 96 hex digits.
C16_OnlyValidKeys ==
  /\ \A k \in DOMAIN storedState : WellFormedKey(k)
  /\ \A w \in inflight : \A k \in DOMAIN w.data : WellFormedKey(k)

\* C17: a start with a required setting absent, or with a payload file that
\* cannot be read or parsed, ends with exit code 1 and has neither loaded nor
\* written the store, nor issued a query, nor attempted a registration.
C17_StartupErrorsAbort ==
  [][~alive =>
       \A d \in {driver'}, cli \in CliInputs, env \in {"ok", "missing"},
          ks \in KeysharesFiles \cup {NoKeyshares} :
         ( /\ (env = "missing" \/ (d # "monitor" /\ ks.shape = "unreadable"))
           /\ Start(d, cli, env, ks) )
         => ( /\ exit' = "code1" /\ ~alive'
              /\ disk' = disk /\ inflight' = inflight
              /\ storedState' = EmptyState
              /\ netCount' = 0 /\ lastRequest' = <<>>
              /\ registered' = registered /\ attempted' = {} )]_vars

\* C17 witness: a start has failed while a store file exists
C17_Witness == exit = "code1" /\ exitCause = "startup" /\ disk.kind = "ok"

\* the keys the body reports
Reported == {body.data[i].pubkey : i \in 1..Len(body.data)}

\* the result keeps every key of the stored record, keeps the status of the
\* keys the body does not report, and is the stored record itself when the
\* body has no data array
PollKeepsUnreported ==
  /\ pc = "returned"
  /\ DOMAIN storedState \subseteq DOMAIN newStoredState
  /\ \A k \in (DOMAIN storedState) \ Reported : newStoredState[k] = storedState[k]
  /\ body.kind # "data" => newStoredState = storedState

C19_UnrecognisedStatus ==
  /\ \A k \in DOMAIN storedState : storedState[k] \in Status
  /\ \A k \in DOMAIN newStoredState : newStoredState[k] \in Status
  /\ \A w \in inflight : \A k \in DOMAIN w.data : w.data[k] \in Status
  /\ \A k \in DOMAIN loadValidatorStatuses(disk) : loadValidatorStatuses(disk)[k] \in Status

\* a cycle's query fails: fetchValidators throws on the answer, or on an
\* empty key list before a request is made
QueryFails ==
  \/ \E response \in Responses : FetchReturn(response) /\ FetchThrows(response)
  \/ CycleBegin /\ outcome' = "threw"

\* the first step of the cycle that follows a failed one
NextCycleBegins == CycleBegin /\ outcome = "threw"

\* C20 (as claimed): a cycle whose query fails reconciles nothing, starts no
\* write, attempts no registration and leaves the file as it is, and the
\* cycle after it queries the same key list.
C20_FailedQueryChangesNothing ==
  [][/\ QueryFails =>
          /\ alive' /\ pc' = "sleep"
          /\ newStoredState' = EmptyState /\ preReconcile' = EmptyState
          /\ inflight' = inflight /\ disk' = disk
          /\ registered' = registered /\ attempted' = {}
     /\ NextCycleBegins => pubkeys' = pubkeys]_vars

\* ---- C21 ----
\* C21: in the per-key driver, once the registration loop of a cycle is over,
\* a registration has been attempted for every transitioned key that has a
\* payload, whether or not the registration of an earlier key of the same
\* cycle failed.
C21_EveryPayloadKeyAttempted ==
  (alive /\ driver = "perkey" /\ outcome = "reconciled" /\ pc # "register") =>
    attempted = {k \in transitioned : HasPayload(driver, keyshares, k)}

\* the first key of the cycle failed and the second was attempted all the same
C21_Witness ==
  /\ alive /\ driver = "perkey" /\ pc = "check"
  /\ KeyOrder[1] \in regFailed
  /\ KeyOrder[2] \in attempted

\* ---- C22 ----
\* C22: a transitioned key without a payload is skipped on its own: the step
\* of the registration loop that meets it attempts no registration, leaves
\* every other transitioned key of the cycle still to be tried, and the loop
\* ends at the termination check.
C22_MissingPayloadSkipsOneKey ==
  [][(alive /\ alive' /\ pc = "register" /\ toRegister' # toRegister) =>
       \A k \in toRegister \ toRegister' :
         ~HasPayload(driver, keyshares, k) =>
           /\ attempted' = attempted
           /\ registered' = registered
           /\ regFailed' = regFailed
           /\ toRegister' = toRegister \ {k}
           /\ pc' = IF toRegister' = {} THEN "check" ELSE "register"]_vars

\* the first key was skipped for lack of a payload, the second was submitted
C22_Witness ==
  /\ alive /\ pc = "check" /\ outcome = "reconciled"
  /\ transitioned = Keys
  /\ ~HasPayload(driver, keyshares, KeyOrder[1])
  /\ attempted = {KeyOrder[2]}

\* ---- C23 ----
\* C23: a key whose registration failed in an earlier cycle of the running
\* process is not submitted for registration again by that process.
C23_NoRetryAfterFailure ==
  [][\A k \in attempted' \ attempted : k \notin runFailed]_vars

\* ---- C24 ----
\* C24: in every driver, the keys of a request are exactly the stored keys
\* whose status is not active_ongoing; a key stored as active_ongoing is
\* never part of a query.
C24_QueryScope ==
  (alive /\ pc = "fetching") =>
    Range(lastRequest) = {k \in DOMAIN storedState : storedState[k] # "active_ongoing"}

\* ---- C25 ----
\* C25: within a cycle the registrations are dispatched before the reconciled
\* store is persisted: while registrations of the cycle are still to be
\* made, no write of the cycle's reconciled record has been started, and
\* no key still waiting for its registration is recorded as active_ongoing
\* in the file (a process stop at that point leaves it pending).
C25_DispatchBeforePersist ==
  (alive /\ pc = "register") =>
    /\ \A w \in inflight : w.origin # "loop"
    /\ \A k \in toRegister :
         LET onFile == loadValidatorStatuses(disk)
         IN  k \in DOMAIN onFile => onFile[k] # "active_ongoing"

\* ---- C26 ----
\* C26: in every driver, when a cycle whose query and reconcile steps
\* succeeded goes to sleep, the reconciled record is what the file holds, or
\* at least what a write of the cycle is about to put there.
C26_StoreUpdated ==
  [][(alive /\ pc = "check" /\ outcome = "reconciled" /\ alive' /\ pc' = "sleep") =>
       \/ loadValidatorStatuses(disk) = Reconciled
       \/ \E w \in inflight : w.origin = "loop" /\ w.data = Reconciled]_vars

C28_WritesComplete ==
  [][/\ (alive /\ pc = "top" /\ driver # "bulk" /\ pc' # "top" /\ alive') => inflight = {}
     /\ (\E w \in inflight' : w \notin inflight) => inflight = {}
     /\ (alive /\ ~alive' /\ exit' = "code0") => inflight' = {}
     /\ (~alive /\ exit = "code0" /\ inflight = {}) =>
          loadValidatorStatuses(disk) = EmptyState]_vars

\* ---- C29 ----
\* C29: a cycle that begins with no pending key in the store issues no
\* request, starts no write, attempts no registration and goes to sleep
\* through the catch block; the cycle after such a cycle has no pending key
\* either.
C29_EmptyPendingSet ==
  [][(alive /\ alive' /\ pc = "top" /\ pc' # "top") =>
       /\ Len(filterPendingOnly(storedState')) = 0 =>
            /\ netCount' = 0
            /\ inflight' = inflight
            /\ registered' = registered /\ attempted' = {}
            /\ pc' = "sleep" /\ outcome' = "threw"
       /\ (outcome = "threw" /\ Len(filterPendingOnly(storedState)) = 0) =>
            Len(filterPendingOnly(storedState')) = 0]_vars

\* ---- C30 ----
\* C30: the reconcile step introduces no key: every key of the record
\* processFetchedValidators returns was a key of the stored state it was
\* given.
C30_NoNewKeys ==
  (pc = "returned") => DOMAIN newStoredState \subseteq DOMAIN storedState

\* ---- C31 ----
\* C31: every time a registration call is made, each key whose payload is
\* submitted is recorded as active_ongoing in the store the driver holds,
\* has a payload in the registration index loaded at startup, and the call
\* comes after a query of the cycle succeeded and was reconciled.
C31_OnlyActivatedWithPayload ==
  [][\A k \in attempted' \ attempted :
       /\ alive /\ pc = "register" /\ outcome = "reconciled"
       /\ k \in DOMAIN Reconciled /\ Reconciled[k] = "active_ongoing"
       /\ HasPayload(driver, keyshares, k)]_vars

\* a registration was made for the second key while the first key, which
\* has a payload too, is stored with another status and was left alone
C31_Witness ==
  /\ alive /\ pc = "check" /\ attempted = {KeyOrder[2]}
  /\ HasPayload(driver, keyshares, KeyOrder[1])
  /\ KeyOrder[1] \in DOMAIN Reconciled
  /\ Reconciled[KeyOrder[1]] # "active_ongoing"

====
